---- MODULE Spec2Model ----
(***************************************************************************)
(* Model of src/visual.py: merge_climate_data, plot_moving_averages,       *)
(* plot_unclaimed_estates, plot_marital_status_distribution and main.      *)
(*                                                                         *)
(* A DataFrame is a record [cols, rows]: cols is the sequence of column    *)
(* labels, rows the sequence of rows, each a sequence of cells aligned     *)
(* with cols.  Numeric cells are exact rationals <<n, d>> in lowest terms  *)
(* with d > 0; the missing value NaN is <<0, 0>>.  Floating-point rounding *)
(* is not modelled.                                                        *)
(***************************************************************************)
EXTENDS Integers, Sequences, FiniteSets

VARIABLES
    pc,           \* position of the running program
    caller,       \* "main" when the running function was called by main, else "none"
    error,        \* name of the uncaught exception that ended the run, "" if none
    started,      \* operations entered so far, in order
    charts,       \* charts rendered by plt.show() so far, in order
    urls,         \* merge_climate_data: what read_csv yields for each url, in order
    columns,      \* merge_climate_data: the target column names, in order
    dfs,          \* merge_climate_data: local list dfs
    merged_df,    \* merge_climate_data: local merged_df
    i,            \* index of the running for loop
    result_df,    \* the DataFrame object main holds as result_df; the parameter
                  \* df of plot_moving_averages is a reference to the same object
    df_entry,     \* copy of that object taken when plot_moving_averages was entered
    ma_columns,   \* plot_moving_averages: parameter columns
    window,       \* plot_moving_averages: parameter window
    lines,        \* lines added to the current figure by plt.plot
    disk,         \* what read_csv yields for file_path
    date_format,  \* plot_unclaimed_estates: parameter date_format
    threshold,    \* plot_marital_status_distribution: parameter threshold, <<n, d>>
    data,         \* local DataFrame data of the two csv operations
    counts        \* local value_counts() result of the two csv operations

vars == <<pc, caller, error, started, charts, urls, columns, dfs, merged_df, i,
          result_df, df_entry, ma_columns, window, lines,
          disk, date_format, threshold, data, counts>>

mergeVars == <<urls, columns, dfs, merged_df>>
maVars    == <<df_entry, ma_columns, window, lines>>
csvVars   == <<disk, date_format, threshold, data, counts>>

-----------------------------------------------------------------------------
(* Bounds of the model.                                                    *)

MaxSources == 3      \* longest list of sources given to merge_climate_data
MaxTotalRows == 4    \* most rows in all sources of one merge together
MaxRows == 3         \* most rows of a table given to plot_moving_averages
MaxList == 2         \* longest column list given to plot_moving_averages
MaxWindow == 3       \* largest window given to plot_moving_averages
MaxCsvRows == 5      \* most rows of the csv file
MaxDriverRows == 2   \* most rows of one source in a run of main

-----------------------------------------------------------------------------
(* Sequences, numbers.                                                     *)

Range(s) == {s[x] : x \in DOMAIN s}

RECURSIVE SeqsUpTo(_, _)
SeqsUpTo(S, n) ==
    IF n = 0 THEN {<<>>}
    ELSE LET shorter == SeqsUpTo(S, n - 1)
         IN  shorter \cup {Append(s, x) : s \in {t \in shorter : Len(t) = n - 1}, x \in S}

RECURSIVE SumSeq(_)
SumSeq(s) == IF s = <<>> THEN 0 ELSE s[1] + SumSeq(Tail(s))

Abs(x) == IF x < 0 THEN -x ELSE x

RECURSIVE Gcd(_, _)
Gcd(a, b) == IF b = 0 THEN a ELSE Gcd(b, a % b)

NaN == <<0, 0>>
IsNaN(v) == v[2] = 0
Num(n) == <<n, 1>>
Rat(n, d) == LET g == Gcd(Abs(n), d) IN <<n \div g, d \div g>>
RatAdd(a, b) == Rat(a[1] * b[2] + b[1] * a[2], a[2] * b[2])
RatSub(a, b) == Rat(a[1] * b[2] - b[1] * a[2], a[2] * b[2])
RatDivInt(a, n) == Rat(a[1], a[2] * n)
RatLess(a, b) == a[1] * b[2] < b[1] * a[2]

-----------------------------------------------------------------------------
(* DataFrames.                                                             *)

NoFrame == [cols |-> <<>>, rows |-> <<>>]

HasCol(df, c) == c \in Range(df.cols)
ColCount(df, c) == Cardinality({x \in DOMAIN df.cols : df.cols[x] = c})
ColIndex(df, c) == CHOOSE x \in DOMAIN df.cols : df.cols[x] = c
Column(df, c) == [r \in DOMAIN df.rows |-> df.rows[r][ColIndex(df, c)]]

\* df[[c1, c2, ...]]
Select(df, names) ==
    [cols |-> names,
     rows |-> [r \in DOMAIN df.rows |->
                  [x \in DOMAIN names |-> df.rows[r][ColIndex(df, names[x])]]]]

RenameNothing(df, old, new) == df

\* df.rename(columns={old: new})
Rename(df, old, new) ==
    [df EXCEPT !.cols = [x \in DOMAIN df.cols |->
                            IF df.cols[x] = old THEN new ELSE df.cols[x]]]

\* df[c] = values
SetColumn(df, c, values) ==
    [df EXCEPT !.rows = [r \in DOMAIN df.rows |->
                            [df.rows[r] EXCEPT ![ColIndex(df, c)] = values[r]]]]

RECURSIVE Flatten(_)
Flatten(ss) == IF ss = <<>> THEN <<>> ELSE ss[1] \o Flatten(Tail(ss))

DropAt(s, x) == SubSeq(s, 1, x - 1) \o SubSeq(s, x + 1, Len(s))

\* pd.merge refuses a key label that is missing or not unique on a side, and
\* suffixes that produce a label twice (pandas 2).
Suffixed(names, overlap, suffix) ==
    [x \in DOMAIN names |->
        IF names[x] \in overlap THEN names[x] \o suffix ELSE names[x]]

MergeCols(left, right) ==
    LET overlap == (Range(left.cols) \cap Range(right.cols)) \ {"year"}
    IN  Suffixed(left.cols, overlap, "_x")
            \o Suffixed(DropAt(right.cols, ColIndex(right, "year")), overlap, "_y")

MergeRefused(left, right) ==
    \/ ColCount(left, "year") # 1
    \/ ColCount(right, "year") # 1
    \/ LET cs == MergeCols(left, right)
       IN  Cardinality(Range(cs)) # Len(cs)

\* A left join: the rows of left without a match are kept, padded with NaN.
MergeOnYearLeft(left, right) ==
    LET ly == ColIndex(left, "year")
        ry == ColIndex(right, "year")
        pad == [x \in 1..(Len(right.cols) - 1) |-> NaN]
        Matches(l) ==
            LET hit == [r \in DOMAIN right.rows |->
                           IF right.rows[r][ry] = left.rows[l][ly]
                           THEN <<left.rows[l] \o DropAt(right.rows[r], ry)>>
                           ELSE <<>>]
            IN  IF Flatten(hit) = <<>> THEN <<left.rows[l] \o pad>> ELSE Flatten(hit)
    IN  [cols |-> MergeCols(left, right),
         rows |-> Flatten([l \in DOMAIN left.rows |-> Matches(l)])]

\* pd.merge(left, right, on="year"): inner join, left order kept, the rows of
\* right that match one row of left in right's order.
MergeOnYear(left, right) ==
    LET ly == ColIndex(left, "year")
        ry == ColIndex(right, "year")
        Matches(l) ==
            LET hit == [r \in DOMAIN right.rows |->
                           IF right.rows[r][ry] = left.rows[l][ly]
                           THEN <<left.rows[l] \o DropAt(right.rows[r], ry)>>
                           ELSE <<>>]
            IN  Flatten(hit)
    IN  [cols |-> MergeCols(left, right),
         rows |-> Flatten([l \in DOMAIN left.rows |-> Matches(l)])]

-----------------------------------------------------------------------------
(* merge_climate_data                                                      *)

\* The exception is swallowed and main goes on with its last call.
RaiseAndGoOn(name) ==
    /\ pc' = "main_marital_status"
    /\ error' = name

\* An uncaught exception ends the run.
Raise(name) ==
    /\ pc' = "error"
    /\ error' = name

\* for url, column in zip(urls, columns): one pass of the loop body
MergeLoad ==
    /\ pc = "merge_load"
    /\ i <= Len(urls) /\ i <= Len(columns)
    /\ IF ~urls[i].ok
       THEN /\ Raise("ParserError")
            /\ UNCHANGED <<dfs, i>>
       ELSE IF ~(HasCol(urls[i], "year") /\ HasCol(urls[i], "ann"))
       THEN /\ Raise("KeyError")
            /\ UNCHANGED <<dfs, i>>
       ELSE /\ dfs' = Append(dfs, Rename(Select(urls[i], <<"year", "ann">>),
                                         "ann", columns[i]))
            /\ i' = i + 1
            /\ UNCHANGED <<pc, error>>
    /\ UNCHANGED <<caller, started, charts, urls, columns, merged_df, result_df,
                   maVars, csvVars>>

\* merged_df = dfs[0]
MergeFirst ==
    /\ pc = "merge_load"
    /\ ~(i <= Len(urls) /\ i <= Len(columns))
    /\ IF dfs = <<>>
       THEN /\ Raise("IndexError")
            /\ UNCHANGED <<merged_df, i>>
       ELSE /\ merged_df' = dfs[1]
            /\ i' = 2
            /\ pc' = "merge_join"
            /\ UNCHANGED error
    /\ UNCHANGED <<caller, started, charts, urls, columns, dfs, result_df,
                   maVars, csvVars>>

\* for df in dfs[1:]: merged_df = pd.merge(merged_df, df, on="year")
MergeJoin ==
    /\ pc = "merge_join"
    /\ i <= Len(dfs)
    /\ IF MergeRefused(merged_df, dfs[i])
       THEN /\ Raise("MergeError")
            /\ UNCHANGED <<merged_df, i>>
       ELSE /\ merged_df' = MergeOnYear(merged_df, dfs[i])
            /\ i' = i + 1
            /\ UNCHANGED <<pc, error>>
    /\ UNCHANGED <<caller, started, charts, urls, columns, dfs, result_df,
                   maVars, csvVars>>

\* return merged_df; in main: result_df = merge_climate_data(...)
MergeReturn ==
    /\ pc = "merge_join"
    /\ i > Len(dfs)
    /\ IF caller = "main"
       THEN /\ result_df' = merged_df
            /\ pc' = "main_moving_averages"
       ELSE /\ pc' = "done"
            /\ UNCHANGED result_df
    /\ i' = 0
    /\ UNCHANGED <<caller, error, started, charts, mergeVars, maVars, csvVars>>

-----------------------------------------------------------------------------
(* Inputs of merge_climate_data.                                           *)

Years == {2000, 2001}
Letters == <<"a", "b", "c", "d", "e">>

\* Target names: 'year' or a letter.  The letters are interchangeable, so a
\* list takes them in order: a name not used before is the next unused letter.
TargetNames(n) ==
    {cs \in [1..n -> {"year"} \cup Range(Letters)] :
        \A k \in 1..n :
            \/ cs[k] = "year"
            \/ \E j \in 1..(Cardinality({cs[m] : m \in 1..(k - 1)} \ {"year"}) + 1) :
                  j <= Len(Letters) /\ cs[k] = Letters[j]}

\* What read_csv(url, skiprows=5, sep='\s+') yields: a parse failure, a table
\* without an 'ann' column, or a table with columns year, jan, ann.  The cell
\* values identify the source s and the row r they come from.
Unparsable == [ok |-> FALSE, cols |-> <<>>, rows |-> <<>>]

SourceTable(s, ys, withAnn) ==
    [ok   |-> TRUE,
     cols |-> IF withAnn THEN <<"year", "jan", "ann">> ELSE <<"year", "jan">>,
     rows |-> [r \in DOMAIN ys |->
                  IF withAnn THEN <<Num(ys[r]), Num(0), Num(10 * s + r)>>
                  ELSE <<Num(ys[r]), Num(0)>>]]

\* The files list their years in ascending order.
Ascending(ys) == \A r \in 1..(Len(ys) - 1) : ys[r] <= ys[r + 1]

SourcesFor(s, maxRows) ==
    {Unparsable, SourceTable(s, <<2000>>, FALSE)}
        \cup {SourceTable(s, ys, TRUE) :
                 ys \in {zs \in SeqsUpTo(Years, maxRows) : Ascending(zs)}}

RECURSIVE AllSourceLists(_, _)
AllSourceLists(n, maxRows) ==
    IF n = 0 THEN {<<>>}
    ELSE {Append(us, u) : us \in AllSourceLists(n - 1, maxRows),
                          u \in SourcesFor(n, maxRows)}

TotalRows(us) == SumSeq([s \in DOMAIN us |-> Len(us[s].rows)])

\* The lists of n sources with at most total rows together.
SourceLists(n, total) ==
    {us \in AllSourceLists(n, total) : TotalRows(us) <= total}

InitMerge ==
    /\ pc = "merge_load"
    /\ caller = "none" /\ error = "" /\ started = <<"merge">> /\ charts = <<>>
    /\ \E n \in 0..MaxSources :
          /\ urls \in SourceLists(n, MaxTotalRows)
          /\ columns \in TargetNames(n)
    /\ dfs = <<>> /\ merged_df = NoFrame
    /\ i = 1
    /\ result_df = NoFrame /\ df_entry = NoFrame /\ ma_columns = <<>>
    /\ window = 0 /\ lines = <<>>
    /\ disk = Unparsable /\ date_format = "" /\ threshold = NaN
    /\ data = NoFrame /\ counts = <<>>

NextMerge == MergeLoad \/ MergeFirst \/ MergeJoin \/ MergeReturn

SpecMerge == InitMerge /\ [][NextMerge]_vars

-----------------------------------------------------------------------------
(* Properties of merge_climate_data.                                       *)

MergeReturned == pc = "done" /\ started = <<"merge">>

YearsOf(df) == Range(Column(df, "year"))
RowsWithYear(df, y) ==
    Cardinality({r \in DOMAIN df.rows : df.rows[r][ColIndex(df, "year")] = y})
RowsEqual(df, row) == Cardinality({r \in DOMAIN df.rows : df.rows[r] = row})

RECURSIVE Product(_)
Product(s) == IF s = <<>> THEN 1 ELSE s[1] * Product(Tail(s))

MinRows(us) ==
    CHOOSE m \in {Len(us[s].rows) : s \in DOMAIN us} :
        \A s \in DOMAIN us : m <= Len(us[s].rows)

NoYearTwice(df) == \A y \in YearsOf(df) : RowsWithYear(df, y) = 1

\* C1 as stated: the merged table has at most as many rows as the smallest
\* input table, and the year of every output row occurs in every input table.
C1_AsStated ==
    MergeReturned =>
        /\ Len(merged_df.rows) <= MinRows(urls)
        /\ \A s \in DOMAIN urls : YearsOf(merged_df) \subseteq YearsOf(urls[s])

\* C1 (amended): the year of every output row occurs in every input table; the
\* output holds, for each year, as many rows as the product of the numbers of
\* rows with that year in the input tables; so when no input table holds a year
\* twice, the merged table has at most as many rows as the smallest input.
C1_MergeRows ==
    MergeReturned =>
        /\ \A s \in DOMAIN urls : YearsOf(merged_df) \subseteq YearsOf(urls[s])
        /\ \A y \in UNION {YearsOf(urls[s]) : s \in DOMAIN urls} :
              RowsWithYear(merged_df, y)
                  = Product([s \in DOMAIN urls |-> RowsWithYear(urls[s], y)])
        /\ (\A s \in DOMAIN urls : NoYearTwice(urls[s]))
              => Len(merged_df.rows) <= MinRows(urls)

\* Two sources without repeated years, one of them with a year the other
\* lacks, merged into a table that has rows.
C1_Witness ==
    /\ MergeReturned
    /\ Len(urls) >= 2
    /\ \A s \in DOMAIN urls : NoYearTwice(urls[s])
    /\ YearsOf(urls[1]) # YearsOf(urls[2])
    /\ merged_df.rows # <<>>

Distinct(s) == Cardinality(Range(s)) = Len(s)

\* The merged rows are, as a bag, the combinations of one row per source that
\* agree on the year: a merged row occurs as often as the product of the
\* numbers of rows of each source with its year and its value for that source,
\* and there are as many merged rows as such combinations.
ChainOfJoins ==
    /\ \A x \in DOMAIN merged_df.rows :
          LET row == merged_df.rows[x]
          IN  RowsEqual(merged_df, row)
                  = Product([s \in DOMAIN urls |->
                       Cardinality({r \in DOMAIN urls[s].rows :
                           /\ urls[s].rows[r][ColIndex(urls[s], "year")] = row[1]
                           /\ urls[s].rows[r][ColIndex(urls[s], "ann")] = row[s + 1]})])
    /\ Len(merged_df.rows)
          = SumSeq([y \in 1..Cardinality(Years) |->
               Product([s \in DOMAIN urls |->
                   RowsWithYear(urls[s],
                       Num(CHOOSE v \in Years :
                               Cardinality({u \in Years : u < v}) = y - 1))])])

\* C7 as stated: for n >= 1 pairs the result is the chain of inner joins on
\* 'year' over all sources and its columns are 'year' followed by one value
\* column per source, named with that source's target name, in input order.
C7_AsStated ==
    MergeReturned =>
        /\ merged_df.cols = <<"year">> \o columns
        /\ ChainOfJoins

\* C7 (amended): the same, for target names that are pairwise distinct.
C7_MergeColumns ==
    (MergeReturned /\ Distinct(columns)) =>
        /\ merged_df.cols = <<"year">> \o columns
        /\ ChainOfJoins

\* Three sources under distinct names merged into a table that has rows and
\* lacks a year of one source.
C7_Witness ==
    /\ MergeReturned
    /\ Len(urls) = 3
    /\ Distinct(columns)
    /\ merged_df.rows # <<>>
    /\ \E s \in DOMAIN urls : YearsOf(urls[s]) # YearsOf(merged_df)

-----------------------------------------------------------------------------
(* plot_moving_averages                                                    *)

DefaultWindow == 20

\* Series.rolling(window).mean() as pandas computes it: one pass that adds the
\* entering observation to a running sum, removes the one that leaves the
\* window, counts the observations that are not NaN, and yields sum / count
\* where the count reaches min_periods, NaN elsewhere.
RECURSIVE RollState(_, _, _)
RollState(values, w, r) ==
    IF r = 0 THEN [sum |-> Num(0), nobs |-> 0]
    ELSE LET before == RollState(values, w, r - 1)
             added == IF IsNaN(values[r]) THEN before
                      ELSE [sum  |-> RatAdd(before.sum, values[r]),
                            nobs |-> before.nobs + 1]
         IN  IF r > w /\ ~IsNaN(values[r - w])
             THEN [sum  |-> RatSub(added.sum, values[r - w]),
                   nobs |-> added.nobs - 1]
             ELSE added

RollingMinPeriods(values, w, minp) ==
    [r \in DOMAIN values |->
        LET st == RollState(values, w, r)
        IN  IF st.nobs >= minp /\ st.nobs > 0
            THEN RatDivInt(st.sum, st.nobs) ELSE NaN]

RollingFromFirst(values, w) == RollingMinPeriods(values, w, 1)

\* min_periods defaults to the window
Rolling(values, w) == RollingMinPeriods(values, w, w)

Return(next) == pc' = IF caller = "main" THEN next ELSE "done"

\* for column in columns: one pass of the loop body.  df[column] is replaced
\* in the object the caller passed; plt.plot reads df["year"] and df[column]
\* after the replacement.
MAStep ==
    /\ pc = "ma_loop"
    /\ i <= Len(ma_columns)
    /\ LET column == ma_columns[i]
       IN  IF ~HasCol(result_df, column)
           THEN /\ Raise("KeyError")
                /\ UNCHANGED <<result_df, lines, i>>
           ELSE LET df == SetColumn(result_df, column,
                                    Rolling(Column(result_df, column), window))
                IN  /\ result_df' = df
                    /\ IF ~HasCol(df, "year")
                       THEN /\ Raise("KeyError")
                            /\ UNCHANGED <<lines, i>>
                       ELSE /\ lines' = Append(lines, [label |-> column,
                                                       x |-> Column(df, "year"),
                                                       y |-> Column(df, column)])
                            /\ i' = i + 1
                            /\ UNCHANGED <<pc, error>>
    /\ UNCHANGED <<caller, started, charts, mergeVars, df_entry, ma_columns,
                   window, csvVars>>

\* plt.title ... plt.legend, plt.show()
MAShow ==
    /\ pc = "ma_loop"
    /\ i > Len(ma_columns)
    /\ charts' = Append(charts, [kind |-> "line", content |-> lines])
    /\ Return("main_unclaimed_estates")
    /\ i' = 0
    /\ UNCHANGED <<caller, error, started, mergeVars, result_df, maVars, csvVars>>

-----------------------------------------------------------------------------
(* Inputs of plot_moving_averages.                                         *)

CellValues == {Num(1), Num(2), NaN}
PlotColumns == {"year", "a", "b", "c"}

\* Tables with columns year, a, b: consecutive years, any values in a, the
\* squares 1, 4, 9, ... in b.
TableOf(as) ==
    [cols |-> <<"year", "a", "b">>,
     rows |-> [r \in DOMAIN as |-> <<Num(1999 + r), as[r], Num(r * r)>>]]

InitMA ==
    /\ pc = "ma_loop"
    /\ caller = "none" /\ error = "" /\ started = <<"moving_averages">>
    /\ charts = <<>>
    /\ urls = <<>> /\ columns = <<>> /\ dfs = <<>> /\ merged_df = NoFrame
    /\ i = 1
    /\ result_df \in {TableOf(as) : as \in SeqsUpTo(CellValues, MaxRows)}
    /\ df_entry = result_df
    /\ ma_columns \in SeqsUpTo(PlotColumns, MaxList)
    /\ window \in 1..MaxWindow
    /\ lines = <<>>
    /\ disk = Unparsable /\ date_format = "" /\ threshold = NaN
    /\ data = NoFrame /\ counts = <<>>

NextMA == MAStep \/ MAShow

SpecMA == InitMA /\ [][NextMA]_vars

-----------------------------------------------------------------------------
(* Properties of plot_moving_averages.                                     *)

RECURSIVE RatSum(_)
RatSum(s) == IF s = <<>> THEN Num(0) ELSE RatAdd(s[1], RatSum(Tail(s)))

\* The arithmetic mean of values[r-w+1 .. r], NaN when one of them is NaN.
WindowMean(values, w, r) ==
    LET win == SubSeq(values, r - w + 1, r)
    IN  IF \E x \in DOMAIN win : IsNaN(win[x]) THEN NaN
        ELSE RatDivInt(RatSum(win), w)

TrailingMean(values, w) ==
    [r \in DOMAIN values |-> IF r < w THEN NaN ELSE WindowMean(values, w, r)]

\* C5: for every listed column of the table and every window >= 1, a pass of
\* the loop raises no error and replaces the column's value at row r (counted
\* from 1) by the mean of its values in rows r-window+1..r when r >= window and
\* by NaN when r < window; a constant column v keeps v from row window on, and
\* a window larger than the row count leaves only NaN.
C5_RollingMean ==
    [][(/\ pc = "ma_loop" /\ i <= Len(ma_columns)
        /\ HasCol(result_df, ma_columns[i]) /\ HasCol(result_df, "year"))
       => LET old == Column(result_df, ma_columns[i])
              new == Column(result_df', ma_columns[i])
          IN  /\ pc' = "ma_loop" /\ error' = ""
              /\ DOMAIN new = DOMAIN old
              /\ \A r \in DOMAIN old :
                    new[r] = IF r < window THEN NaN ELSE WindowMean(old, window, r)
              /\ \A v \in Range(old) :
                    (~IsNaN(v) /\ Range(old) = {v})
                        => \A r \in DOMAIN old : new[r] = IF r < window THEN NaN ELSE v
              /\ window > Len(old) => \A r \in DOMAIN new : IsNaN(new[r])
      ]_vars

\* A pass with window 2 has left NaN in row 1 and the mean 3/2 of the values
\* 1 and 2 in a later row.
C5_Witness ==
    /\ pc = "ma_loop" /\ i = 2 /\ window = 2
    /\ ma_columns # <<>> /\ ma_columns[1] = "a"
    /\ Len(result_df.rows) >= 2
    /\ IsNaN(Column(result_df, "a")[1])
    /\ \E r \in DOMAIN result_df.rows : Column(result_df, "a")[r] = <<3, 2>>

MAReturned == pc = "done" /\ started = <<"moving_averages">>

\* C10 as stated: each line drawn has as x values the 'year' values the table
\* held when the call began and as y values the trailing mean of the values
\* its column held when the call began, whatever else the list holds.
C10_AsStated ==
    MAReturned =>
        \A k \in DOMAIN lines :
            /\ lines[k].label = ma_columns[k]
            /\ lines[k].x = Column(df_entry, "year")
            /\ lines[k].y = TrailingMean(Column(df_entry, ma_columns[k]), window)

-----------------------------------------------------------------------------
(* The csv file.  A 'Date of Death' cell is the sequence of the numbers    *)
(* that the text holds between its slashes, <<>> for an empty cell; a      *)
(* 'Marital Status' cell is a string, "" for an empty cell.  read_csv      *)
(* turns empty cells into missing values.                                  *)

NoDate == <<>>
NoStatus == ""

\* data[c] = values, for a label the frame does not hold yet
AddColumn(df, c, values) ==
    [cols |-> Append(df.cols, c),
     rows |-> [r \in DOMAIN df.rows |-> Append(df.rows[r], values[r])]]

IsLeap(y) == (y % 4 = 0 /\ y % 100 # 0) \/ y % 400 = 0
DaysIn(m, y) ==
    IF m = 2 THEN (IF IsLeap(y) THEN 29 ELSE 28)
    ELSE IF m \in {4, 6, 9, 11} THEN 30 ELSE 31

\* The fields of a text read under a format: <<day, month, year>>.
FieldsUnder(text, format) ==
    IF format = "%d/%m/%Y" THEN <<text[1], text[2], text[3]>>
    ELSE <<text[2], text[1], text[3]>>

\* pd.to_datetime(text, format=...) accepts the text
Parses(text, format) ==
    \/ text = NoDate
    \/ /\ format \in {"%d/%m/%Y", "%m/%d/%Y"}
       /\ Len(text) = 3
       /\ LET f == FieldsUnder(text, format)
          IN  /\ f[3] \in 1678..2261
              /\ f[2] \in 1..12
              /\ f[1] \in 1..DaysIn(f[2], f[3])

\* pd.to_datetime(text, format=...).year: NaN for a missing date
YearOf(text, format) ==
    IF text = NoDate THEN NaN ELSE Num(FieldsUnder(text, format)[3])

\* Series.value_counts(): the number of occurrences of each value that is not
\* missing
ValueCounts(values, missing) ==
    [v \in Range(values) \ missing |->
        Cardinality({r \in DOMAIN values : values[r] = v})]

RECURSIVE Total(_)
Total(f) ==
    IF DOMAIN f = {} THEN 0
    ELSE LET v == CHOOSE u \in DOMAIN f : TRUE
         IN  f[v] + Total([u \in DOMAIN f \ {v} |-> f[u]])

-----------------------------------------------------------------------------
(* plot_unclaimed_estates                                                  *)

CutoffYear == 1999

From1999(year) == ~IsNaN(year) /\ ~RatLess(year, Num(CutoffYear))

\* data['Year of Death'] > 1999: False for NaN
After1999(year) == ~IsNaN(year) /\ RatLess(Num(CutoffYear), year)

\* data = pd.read_csv(file_path, encoding='ISO-8859-1')
BarRead ==
    /\ pc = "bar_read"
    /\ IF ~disk.ok
       THEN /\ Raise("ParserError")
            /\ UNCHANGED data
       ELSE /\ data' = [cols |-> disk.cols, rows |-> disk.rows]
            /\ pc' = "bar_parse"
            /\ UNCHANGED error
    /\ UNCHANGED <<caller, started, charts, mergeVars, i, result_df, maVars,
                   disk, date_format, threshold, counts>>

\* data['Year of Death'] = pd.to_datetime(data['Date of Death'], ...).dt.year
BarParse ==
    /\ pc = "bar_parse"
    /\ IF ~HasCol(data, "Date of Death")
       THEN /\ Raise("KeyError")
            /\ UNCHANGED data
       ELSE LET dates == Column(data, "Date of Death")
            IN  IF \E r \in DOMAIN dates : ~Parses(dates[r], date_format)
                THEN /\ Raise("ValueError")
                     /\ UNCHANGED data
                ELSE /\ data' = AddColumn(data, "Year of Death",
                                    [r \in DOMAIN dates |-> YearOf(dates[r], date_format)])
                     /\ pc' = "bar_plot"
                     /\ UNCHANGED error
    /\ UNCHANGED <<caller, started, charts, mergeVars, i, result_df, maVars,
                   disk, date_format, threshold, counts>>

\* filtered_data, yearly_counts, plt.bar ... plt.show()
BarPlot ==
    /\ pc = "bar_plot"
    /\ LET years == Column(data, "Year of Death")
           yearly_counts ==
               ValueCounts(years, {y \in Range(years) : ~After1999(y)})
       IN  /\ counts' = yearly_counts
           /\ charts' = Append(charts, [kind |-> "bar", content |-> yearly_counts])
    /\ Return("main_marital_status")
    /\ UNCHANGED <<caller, error, started, mergeVars, i, result_df, maVars,
                   disk, date_format, threshold, data>>

-----------------------------------------------------------------------------
(* plot_marital_status_distribution                                        *)

IsSmallOrEqual(count, total, limit) == ~RatLess(limit, Rat(count, total))

\* marital_status_counts / marital_status_counts.sum() < threshold
IsSmall(count, total, limit) == RatLess(Rat(count, total), limit)

RelabelDrop(x, small_categories) ==
    IF x \in small_categories THEN NoStatus ELSE x

\* lambda x: 'Other' if x in small_categories else x
Relabel(x, small_categories) ==
    IF x \in small_categories THEN "Other" ELSE x

\* data = pd.read_csv(file_path, encoding='ISO-8859-1')
PieRead ==
    /\ pc = "pie_read"
    /\ IF ~disk.ok
       THEN /\ Raise("ParserError")
            /\ UNCHANGED data
       ELSE /\ data' = [cols |-> disk.cols, rows |-> disk.rows]
            /\ pc' = "pie_bucket"
            /\ UNCHANGED error
    /\ UNCHANGED <<caller, started, charts, mergeVars, i, result_df, maVars,
                   disk, date_format, threshold, counts>>

\* value_counts, small_categories, the relabelling, value_counts again
PieBucket ==
    /\ pc = "pie_bucket"
    /\ IF ~HasCol(data, "Marital Status")
       THEN /\ Raise("KeyError")
            /\ UNCHANGED <<data, counts>>
       ELSE LET status == Column(data, "Marital Status")
                marital_status_counts == ValueCounts(status, {NoStatus})
                sum == Total(marital_status_counts)
                small_categories ==
                    {c \in DOMAIN marital_status_counts :
                        IsSmall(marital_status_counts[c], sum, threshold)}
                relabelled == [r \in DOMAIN status |->
                                  Relabel(status[r], small_categories)]
            IN  /\ data' = SetColumn(data, "Marital Status", relabelled)
                /\ counts' = ValueCounts(relabelled, {NoStatus})
                /\ pc' = "pie_plot"
                /\ UNCHANGED error
    /\ UNCHANGED <<caller, started, charts, mergeVars, i, result_df, maVars,
                   disk, date_format, threshold>>

\* plt.figure, plt.pie ... plt.show()
PiePlot ==
    /\ pc = "pie_plot"
    /\ charts' = Append(charts, [kind |-> "pie", content |-> counts])
    /\ pc' = "done"
    /\ UNCHANGED <<caller, error, started, mergeVars, i, result_df, maVars, csvVars>>

-----------------------------------------------------------------------------
(* Inputs of the csv operations.                                           *)

DateTexts ==
    {NoDate, <<31, 12, 1999>>, <<1, 1, 2000>>, <<5, 6, 2001>>, <<6, 13, 2001>>,
     <<29, 2, 2001>>}
Statuses == {NoStatus, "A", "B", "Other"}
Thresholds == {<<3, 100>>, <<1, 2>>, <<1, 1>>, <<3, 2>>}

CsvWith(rows) ==
    [ok |-> TRUE, cols |-> <<"Date of Death", "Marital Status">>, rows |-> rows]

CsvOnly(label) ==
    [ok |-> TRUE, cols |-> <<label>>, rows |-> <<>>]

InitCsv(entry, name, files, formats, limits) ==
    /\ pc = entry
    /\ caller = "none" /\ error = "" /\ started = <<name>> /\ charts = <<>>
    /\ urls = <<>> /\ columns = <<>> /\ dfs = <<>> /\ merged_df = NoFrame
    /\ i = 0
    /\ result_df = NoFrame /\ df_entry = NoFrame /\ ma_columns = <<>>
    /\ window = 0 /\ lines = <<>>
    /\ disk \in files
    /\ date_format \in formats
    /\ threshold \in limits
    /\ data = NoFrame /\ counts = <<>>

InitBar ==
    InitCsv("bar_read", "unclaimed_estates",
            {Unparsable, CsvOnly("Marital Status")}
                \cup {CsvWith([r \in DOMAIN ds |-> <<ds[r], "A">>]) :
                         ds \in SeqsUpTo(DateTexts, MaxCsvRows)},
            {"%d/%m/%Y", "%m/%d/%Y"}, {NaN})

NextBar == BarRead \/ BarParse \/ BarPlot

SpecBar == InitBar /\ [][NextBar]_vars

InitPie ==
    InitCsv("pie_read", "marital_status",
            {Unparsable, CsvOnly("Date of Death")}
                \cup {CsvWith([r \in DOMAIN ss |-> <<NoDate, ss[r]>>]) :
                         ss \in SeqsUpTo(Statuses, MaxCsvRows)},
            {""}, Thresholds)

NextPie == PieRead \/ PieBucket \/ PiePlot

SpecPie == InitPie /\ [][NextPie]_vars

-----------------------------------------------------------------------------
(* Properties of plot_unclaimed_estates.                                   *)

BarReturned == pc = "done" /\ started = <<"unclaimed_estates">>

\* The rows of the file whose date text holds a year after 1999.
LateRows ==
    {r \in DOMAIN disk.rows :
        LET text == disk.rows[r][ColIndex(disk, "Date of Death")]
        IN  text # NoDate /\ text[3] > 1999}

DeathYear(r) == disk.rows[r][ColIndex(disk, "Date of Death")][3]

\* C4: for a table whose dates all parse, the bar chart holds one bar per
\* distinct year of death greater than 1999 and none for another year, each
\* bar is as high as the number of rows with that year, and the heights add up
\* to the number of rows whose year is greater than 1999.
C4_YearlyBars ==
    BarReturned =>
        LET bars == charts[1].content
        IN  /\ charts[1].kind = "bar"
            /\ DOMAIN bars = {Num(DeathYear(r)) : r \in LateRows}
            /\ \A y \in DOMAIN bars :
                  bars[y] = Cardinality({r \in LateRows : DeathYear(r) = y[1]})
            /\ Total(bars) = Cardinality(LateRows)

\* A file with deaths in 1999, in 2000 and twice in 2001, and a row without a
\* date, has been drawn.
C4_Witness ==
    /\ BarReturned
    /\ \E r \in DOMAIN disk.rows : disk.rows[r][1] = <<31, 12, 1999>>
    /\ \E r \in DOMAIN disk.rows : disk.rows[r][1] = NoDate
    /\ DOMAIN charts[1].content = {Num(2000), Num(2001)}
    /\ charts[1].content[Num(2001)] = 2

-----------------------------------------------------------------------------
(* Properties of plot_marital_status_distribution.                         *)

PieReturned == pc = "done" /\ started = <<"marital_status">>

StatusOf(r) == disk.rows[r][ColIndex(disk, "Marital Status")]
Categories == {StatusOf(r) : r \in DOMAIN disk.rows} \ {NoStatus}
RowsOf(c) == Cardinality({r \in DOMAIN disk.rows : StatusOf(r) = c})
KnownRows == Cardinality({r \in DOMAIN disk.rows : StatusOf(r) # NoStatus})

\* count / total < threshold, for total > 0
Below(count, total) == count * threshold[2] < threshold[1] * total

RECURSIVE RowsOfAll(_)
RowsOfAll(cs) ==
    IF cs = {} THEN 0
    ELSE LET c == CHOOSE u \in cs : TRUE IN RowsOf(c) + RowsOfAll(cs \ {c})

\* C2 as stated: the slice values add up to the number of rows of the input.
C2_AsStated ==
    PieReturned => Total(charts[1].content) = Len(disk.rows)

\* C2 (amended): the slice values add up to the number of rows of the input
\* whose 'Marital Status' is not missing.
C2_SliceSum ==
    PieReturned => Total(charts[1].content) = KnownRows

\* A file with a missing status and a category folded into "Other".
C2_Witness ==
    /\ PieReturned
    /\ KnownRows < Len(disk.rows)
    /\ \E c \in Categories : c \notin DOMAIN charts[1].content
    /\ "Other" \in DOMAIN charts[1].content

\* C3 as stated: a category loses its slice exactly when its count divided by
\* the total row count is strictly below the threshold, and a category at or
\* above the threshold keeps a slice with its original count.
C3_AsStated ==
    PieReturned =>
        \A c \in Categories :
            IF Below(RowsOf(c), Len(disk.rows))
            THEN c \notin DOMAIN charts[1].content
            ELSE c \in DOMAIN charts[1].content /\ charts[1].content[c] = RowsOf(c)

\* C3 (amended): a category is relabeled to "Other" exactly when its count
\* divided by the number of rows with a status is strictly below the
\* threshold.  No such category other than "Other" keeps a slice; every
\* category other than "Other" at or above the threshold keeps a slice with
\* its count; the slice "Other" exists when a category was relabeled or the
\* input holds a category "Other", and its value is the count of all relabeled
\* categories plus that of an input category "Other".
C3_Bucketing ==
    PieReturned =>
        LET slices == charts[1].content
            small == {c \in Categories : Below(RowsOf(c), KnownRows)}
            other == small \cup (Categories \cap {"Other"})
        IN  /\ DOMAIN slices = (Categories \ small) \cup {"Other" : c \in other}
            /\ \A c \in Categories \ other : slices[c] = RowsOf(c)
            /\ other # {} => slices["Other"] = RowsOfAll(other)

\* The scenario A: 60%, B: 40% under threshold 1/2: A keeps 3, "Other" has 2.
C3_Witness ==
    /\ PieReturned
    /\ threshold = <<1, 2>>
    /\ Len(disk.rows) = 5 /\ RowsOf("A") = 3 /\ RowsOf("B") = 2
    /\ DOMAIN charts[1].content = {"A", "Other"}
    /\ charts[1].content["A"] = 3 /\ charts[1].content["Other"] = 2

AllBelow == \A c \in Categories : Below(RowsOf(c), KnownRows)

\* C9 as stated: for an input with at least one row and a threshold above
\* every category's relative frequency, the pie holds exactly one slice,
\* "Other", which is the whole pie.
C9_AsStated ==
    (PieReturned /\ Len(disk.rows) >= 1 /\ AllBelow) =>
        /\ DOMAIN charts[1].content = {"Other"}
        /\ charts[1].content["Other"] = Total(charts[1].content)

\* C9 (amended): for an input with at least one row whose status is not
\* missing and a threshold above every category's relative frequency, the pie
\* holds exactly one slice, "Other", whose value is the number of rows with a
\* status.
C9_SingleOther ==
    (PieReturned /\ KnownRows >= 1 /\ AllBelow) =>
        /\ DOMAIN charts[1].content = {"Other"}
        /\ charts[1].content["Other"] = KnownRows

\* Two categories and a row without status, all folded into one slice.
C9_Witness ==
    /\ PieReturned
    /\ AllBelow
    /\ {"A", "B"} \subseteq Categories
    /\ KnownRows < Len(disk.rows)
    /\ DOMAIN charts[1].content = {"Other"}

-----------------------------------------------------------------------------
(* main                                                                    *)

\* result_df = merge_climate_data(url_list, column_names)
MainCallMerge ==
    /\ pc = "main"
    /\ columns' = <<"england", "wales", "scotland", "northern">>
    /\ started' = Append(started, "merge")
    /\ i' = 1
    /\ pc' = "merge_load"
    /\ UNCHANGED <<caller, error, charts, urls, dfs, merged_df, result_df,
                   maVars, csvVars>>

\* plot_moving_averages(result_df, columns_to_plot)
MainCallMovingAverages ==
    /\ pc = "main_moving_averages"
    /\ ma_columns' = <<"england", "scotland", "wales", "northern">>
    /\ window' = DefaultWindow
    /\ df_entry' = result_df
    /\ started' = Append(started, "moving_averages")
    /\ i' = 1
    /\ pc' = "ma_loop"
    /\ UNCHANGED <<caller, error, charts, mergeVars, result_df, lines, csvVars>>

\* plot_unclaimed_estates(file_path, date_format=date_format)
MainCallUnclaimedEstates ==
    /\ pc = "main_unclaimed_estates"
    /\ date_format' = "%d/%m/%Y"
    /\ started' = Append(started, "unclaimed_estates")
    /\ pc' = "bar_read"
    /\ UNCHANGED <<caller, error, charts, mergeVars, i, result_df, maVars,
                   disk, threshold, data, counts>>

\* plot_marital_status_distribution(file_path)
MainCallMaritalStatus ==
    /\ pc = "main_marital_status"
    /\ threshold' = <<3, 100>>
    /\ started' = Append(started, "marital_status")
    /\ pc' = "pie_read"
    /\ UNCHANGED <<caller, error, charts, mergeVars, i, result_df, maVars,
                   disk, date_format, data, counts>>

\* What the four urls and the csv file hold when main runs.
DriverSources(s) ==
    {Unparsable, SourceTable(s, <<2000>>, FALSE)}
        \cup {SourceTable(s, [r \in 1..n |-> 1999 + r], TRUE) : n \in 0..MaxDriverRows}

DriverRows == {<<1, 1, 2000>>, <<6, 13, 2001>>, NoDate} \X {"A", NoStatus}

DriverFiles ==
    {Unparsable, CsvOnly("Date of Death"), CsvOnly("Marital Status")}
        \cup {CsvWith(rows) : rows \in SeqsUpTo(DriverRows, MaxDriverRows)}

Init ==
    /\ pc = "main"
    /\ caller = "main" /\ error = "" /\ started = <<>> /\ charts = <<>>
    /\ urls \in {<<u1, u2, u3, u4>> : u1 \in DriverSources(1), u2 \in DriverSources(2),
                                    u3 \in DriverSources(3), u4 \in DriverSources(4)}
    /\ columns = <<>> /\ dfs = <<>> /\ merged_df = NoFrame
    /\ i = 0
    /\ result_df = NoFrame /\ df_entry = NoFrame /\ ma_columns = <<>>
    /\ window = 0 /\ lines = <<>>
    /\ disk \in DriverFiles
    /\ date_format = "" /\ threshold = NaN
    /\ data = NoFrame /\ counts = <<>>

Next ==
    \/ MainCallMerge \/ MergeLoad \/ MergeFirst \/ MergeJoin \/ MergeReturn
    \/ MainCallMovingAverages \/ MAStep \/ MAShow
    \/ MainCallUnclaimedEstates \/ BarRead \/ BarParse \/ BarPlot
    \/ MainCallMaritalStatus \/ PieRead \/ PieBucket \/ PiePlot

Spec == Init /\ [][Next]_vars

-----------------------------------------------------------------------------
(* Properties of main.                                                     *)

Operations == <<"merge", "moving_averages", "unclaimed_estates", "marital_status">>
ChartKinds == <<"line", "bar", "pie">>

\* C6: when an operation of the run fails, the run ends there: no step
\* follows, the operations started are those up to the failing one, the charts
\* rendered are those of the operations before it, and a failed merge leaves no
\* table behind.
C6_FailureEndsRun ==
    error # "" =>
        /\ pc = "error"
        /\ ~ENABLED Next
        /\ started # <<>>
        /\ started = SubSeq(Operations, 1, Len(started))
        /\ Len(charts) = IF Len(started) = 1 THEN 0 ELSE Len(started) - 2
        /\ \A k \in DOMAIN charts : charts[k].kind = ChartKinds[k]
        /\ Len(started) = 1 => result_df = NoFrame

\* The run has failed on a date that does not parse, after the line chart.
C6_Witness ==
    /\ error = "ValueError"
    /\ started = <<"merge", "moving_averages", "unclaimed_estates">>
    /\ Len(charts) = 1

\* C8 as stated: after plot_moving_averages returns, the table main passed in
\* holds the values it held before the call.
C8_AsStated ==
    (caller = "main" /\ Len(charts) >= 1) => result_df = df_entry

====
